---- MODULE Spec2Model ----
(***************************************************************************)
(* Model of src/server.js: the request queue in front of the Mistral       *)
(* completion API.  One Node.js event loop runs the program, so every      *)
(* stretch of code between two awaits is one atomic step.  The awaits are  *)
(* the spacing timer (line 40), the remote call (line 74) and the backoff  *)
(* timer (line 118).                                                       *)
(***************************************************************************)
EXTENDS Integers, Sequences, FiniteSets, TLC

(* ---- bounds of the model ---- *)
MaxRequests == 2          \* HTTP requests received over one run
MaxTicks == 14            \* clock steps over one run

(* ---- program constants ---- *)
MIN_REQUEST_INTERVAL == 1000
RETRY_CEILING == 3
BASE_DELAY == 1000

TimeStep == MIN_REQUEST_INTERVAL \div 2
StartTime == MIN_REQUEST_INTERVAL
MaxTime == StartTime + MaxTicks * TimeStep

VARIABLES
  now,              \* Date.now()
  requestQueue,     \* line 25
  isProcessing,     \* line 26
  lastRequestTime,  \* line 28
  drains,           \* suspended activations of processQueue
  nextRes,          \* number of HTTP requests received so far
  invoked,          \* per res: calls of res.status(..).json(..)
  lastResp,         \* per res: the last response that was sent on it
  attempts,         \* per res: remote calls started for its job
  rlOnly,           \* per res: every remote call so far was rate limited
  limited,          \* the res whose job got a rate limit error
  sentOrder,        \* the res in the order of the first response sent on each
  prevRequestTime,  \* value of lastRequestTime before its last write
  shiftEmpty,       \* line 43 found the queue empty
  lastEvent         \* what the last step did

vars == <<now, requestQueue, isProcessing, lastRequestTime, drains, nextRes,
          invoked, lastResp, attempts, rlOnly, limited, sentOrder,
          prevRequestTime, shiftEmpty, lastEvent>>

ResIds == 1..MaxRequests

(* ---- JavaScript values ---- *)
Undefined == -1
JsNull == [tag |-> "null", items |-> <<>>]
JsArray(s) == [tag |-> "array", items |-> s]
NoResponse == [status |-> 0, error |-> "", skills |-> JsNull]

Max(a, b) == IF a >= b THEN a ELSE b

RECURSIVE Pow(_, _)
Pow(b, e) == IF e = 0 THEN 1 ELSE b * Pow(b, e - 1)

(* ---- request bodies ---- *)
ValidTitles == {"Registered Nurse", "Software Engineer"}
BlankTitles == {"", "  "}
MissingTitle == "undefined"
Bodies == ValidTitles \cup BlankTitles \cup {MissingTitle}

Trim_Identity(t) == t

\* String.prototype.trim on the modelled titles
Trim(t) == IF t \in BlankTitles THEN "" ELSE t

\* String.prototype.toLowerCase on the modelled titles
ToLowerCase(t) ==
  CASE t = "Registered Nurse" -> "registered nurse"
    [] t = "Software Engineer" -> "software engineer"
    [] OTHER -> t

\* String.prototype.includes on the modelled lower-cased titles
Includes(s, kw) ==
  \/ s = "registered nurse" /\ kw = "nurse"
  \/ s = "software engineer" /\ kw = "engineer"

commonSkills == <<"Communication", "Problem Solving", "Teamwork", "Time Management">>

getDefaultSkills(jobTitle) ==
  LET lowerTitle == ToLowerCase(jobTitle) IN
  IF Includes(lowerTitle, "nurse") \/ Includes(lowerTitle, "nursing")
  THEN <<"Patient Care", "Medical Record Documentation", "Vital Signs Monitoring",
         "Medication Administration", "Wound Care", "Patient Advocacy",
         "CPR/BLS Certified", "Care Planning", "Clinical Assessment",
         "EMR/EHR Systems">> \o SubSeq(commonSkills, 1, 2)
  ELSE IF Includes(lowerTitle, "developer") \/ Includes(lowerTitle, "engineer")
  THEN commonSkills \o <<"JavaScript", "React", "Git", "CSS", "HTML">>
  ELSE IF Includes(lowerTitle, "designer")
  THEN commonSkills \o <<"UI/UX", "Figma", "Adobe Creative Suite", "Prototyping">>
  ELSE IF Includes(lowerTitle, "manager")
  THEN commonSkills \o <<"Leadership", "Project Management", "Agile", "Budgeting">>
  ELSE commonSkills \o <<"Research", "Microsoft Office", "Organization", "Analysis">>

(* ---- the Completion Client's outcomes ---- *)
\* error.message of a rejected client.chat.complete; "" is an error without one
ErrorMessages == {"429 rate limit exceeded", "Service unavailable", ""}

\* error.message && error.message.includes("rate limit")
MentionsRateLimit(message) == message = "429 rate limit exceeded"

\* response.choices[0].message.content of a fulfilled call:
\*   json     a JSON array is embedded, items are its elements
\*   badjson  the text between [ and ] is not JSON
\*   csv      no [..] in the text, items are the comma separated pieces, trimmed
Contents ==
  { [kind |-> "json", items |-> <<"Triage", "Empathy">>],
    [kind |-> "json", items |-> <<>>],
    [kind |-> "badjson", items |-> <<>>],
    [kind |-> "csv", items |-> <<"Triage", "", "Empathy">>],
    [kind |-> "csv", items |-> <<"">>] }

Outcomes ==
  [ok : {TRUE}, content : Contents, message : {""}]
    \cup [ok : {FALSE}, content : {[kind |-> "csv", items |-> <<"">>]}, message : ErrorMessages]

RECURSIVE FilterNonEmpty(_)
FilterNonEmpty(s) ==
  IF s = <<>> THEN <<>>
  ELSE IF Head(s) = "" THEN FilterNonEmpty(Tail(s))
  ELSE <<Head(s)>> \o FilterNonEmpty(Tail(s))

\* lines 83-110: the skill list extracted from a fulfilled call
ParseSkills(jobTitle, content) ==
  LET parsed == CASE content.kind = "json" -> content.items
                  [] content.kind = "badjson" -> getDefaultSkills(jobTitle)
                  [] OTHER -> FilterNonEmpty(content.items)
  IN IF Len(parsed) = 0 THEN getDefaultSkills(jobTitle) ELSE parsed

(* ---- the program state that processQueue and its callers update ---- *)
State ==
  [requestQueue |-> requestQueue, isProcessing |-> isProcessing,
   lastRequestTime |-> lastRequestTime, drains |-> drains, invoked |-> invoked,
   lastResp |-> lastResp, attempts |-> attempts, sentOrder |-> sentOrder,
   prevRequestTime |-> prevRequestTime, shiftEmpty |-> shiftEmpty]

Install(s) ==
  /\ requestQueue' = s.requestQueue
  /\ isProcessing' = s.isProcessing
  /\ lastRequestTime' = s.lastRequestTime
  /\ drains' = s.drains
  /\ invoked' = s.invoked
  /\ lastResp' = s.lastResp
  /\ attempts' = s.attempts
  /\ sentOrder' = s.sentOrder
  /\ prevRequestTime' = s.prevRequestTime
  /\ shiftEmpty' = s.shiftEmpty

RemoveAt(seq, i) == SubSeq(seq, 1, i - 1) \o SubSeq(seq, i + 1, Len(seq))

NoJob == [jobTitle |-> "", res |-> 0, retryCount |-> 0]

\* an activation of processQueue suspended at an await
Drain(pc, job, since, due) ==
  [pc |-> pc, jobTitle |-> job.jobTitle, res |-> job.res,
   retryCount |-> job.retryCount, since |-> since, due |-> due]

\* res.status(status).json(body) on a response that accepts it
Send(s, res, status, error, skills) ==
  [s EXCEPT !.invoked[res] = @ + 1,
            !.lastResp[res] = [status |-> status, error |-> error, skills |-> skills],
            !.sentOrder = IF s.invoked[res] = 0 THEN Append(@, res) ELSE @]

\* res.status(status).json(body) on a response that refuses it and throws
SendThrows(s, res) == [s EXCEPT !.invoked[res] = @ + 1]

StartAttempt_DefaultOne(s, t) ==
  IF Len(s.requestQueue) = 0
  THEN [s EXCEPT !.shiftEmpty = TRUE]
  ELSE LET e == Head(s.requestQueue)
           job == [jobTitle |-> e.jobTitle, res |-> e.res,
                   retryCount |-> IF e.retryCount = Undefined THEN 1 ELSE e.retryCount]
       IN [s EXCEPT !.requestQueue = Tail(@),
                    !.prevRequestTime = s.lastRequestTime,
                    !.lastRequestTime = t,
                    !.attempts[e.res] = @ + 1,
                    !.drains = Append(@, Drain("fetch", job, t, t))]

StartAttempt_PopsLast(s, t) ==
  IF Len(s.requestQueue) = 0
  THEN [s EXCEPT !.shiftEmpty = TRUE]
  ELSE LET e == s.requestQueue[Len(s.requestQueue)]
           job == [jobTitle |-> e.jobTitle, res |-> e.res,
                   retryCount |-> IF e.retryCount = Undefined THEN 0 ELSE e.retryCount]
       IN [s EXCEPT !.requestQueue = SubSeq(@, 1, Len(@) - 1),
                    !.prevRequestTime = s.lastRequestTime,
                    !.lastRequestTime = t,
                    !.attempts[e.res] = @ + 1,
                    !.drains = Append(@, Drain("fetch", job, t, t))]

\* lines 43-47 and 62-74: pop the head, stamp the time, start the remote call.
\* Destructuring the undefined that shift() returns on an empty queue throws;
\* the activation ends there and isProcessing stays true.
StartAttempt(s, t) ==
  IF Len(s.requestQueue) = 0
  THEN [s EXCEPT !.shiftEmpty = TRUE]
  ELSE LET e == Head(s.requestQueue)
           job == [jobTitle |-> e.jobTitle, res |-> e.res,
                   retryCount |-> IF e.retryCount = Undefined THEN 0 ELSE e.retryCount]
       IN [s EXCEPT !.requestQueue = Tail(@),
                    !.prevRequestTime = s.lastRequestTime,
                    !.lastRequestTime = t,
                    !.attempts[e.res] = @ + 1,
                    !.drains = Append(@, Drain("fetch", job, t, t))]

timeToWait_IgnoresLast(currentTime, last) == Max(0, MIN_REQUEST_INTERVAL - currentTime)

\* lines 35-36
timeToWait(currentTime, last) == Max(0, MIN_REQUEST_INTERVAL - (currentTime - last))

processQueue_NoEmptyCheck(s, t) ==
  IF s.isProcessing
  THEN s
  ELSE LET s1 == [s EXCEPT !.isProcessing = TRUE]
           wait == timeToWait(t, s.lastRequestTime)
       IN IF wait > 0
          THEN [s1 EXCEPT !.drains = Append(@, Drain("wait", NoJob, t, t + wait))]
          ELSE StartAttempt(s1, t)

processQueue_NoFlag(s, t) ==
  IF Len(s.requestQueue) = 0
  THEN s
  ELSE LET s1 == [s EXCEPT !.isProcessing = TRUE]
           wait == timeToWait(t, s.lastRequestTime)
       IN IF wait > 0
          THEN [s1 EXCEPT !.drains = Append(@, Drain("wait", NoJob, t, t + wait))]
          ELSE StartAttempt(s1, t)

\* lines 31-47: processQueue up to its first await, called at time t
processQueue(s, t) ==
  IF s.isProcessing \/ Len(s.requestQueue) = 0
  THEN s
  ELSE LET s1 == [s EXCEPT !.isProcessing = TRUE]
           wait == timeToWait(t, s.lastRequestTime)
       IN IF wait > 0
          THEN [s1 EXCEPT !.drains = Append(@, Drain("wait", NoJob, t, t + wait))]
          ELSE StartAttempt(s1, t)

retryDelay_Linear(retryCount) == (retryCount + 1) * BASE_DELAY

\* line 115
retryDelay(retryCount) == Pow(2, retryCount) * BASE_DELAY

\* line 114
shouldRetry(message, retryCount) ==
  MentionsRateLimit(message) /\ retryCount < RETRY_CEILING

\* lines 48 and 57-58: fetchSkillsFromMistral resolved with skills
Respond(s, job, skills, t) ==
  LET s1 == Send(s, job.res, 200, "", skills)
  IN processQueue([s1 EXCEPT !.isProcessing = FALSE], t)

\* lines 48-54: both sends throw, the activation rejects before line 57
RespondThrows(s, job) == SendThrows(SendThrows(s, job.res), job.res)

\* A res that has been sent on may accept a further send or throw on it
\* (Express: ERR_HTTP_HEADERS_SENT); a fresh res accepts.
Finish(s, job, skills, t, throws) ==
  IF throws THEN RespondThrows(s, job) ELSE Respond(s, job, skills, t)

MayThrow(res) == IF invoked[res] > 0 THEN BOOLEAN ELSE {FALSE}

\* lines 100-108: the remote text cannot be parsed into a skill list, or the
\* list is empty
Degraded(content) ==
  \/ content.kind = "badjson"
  \/ content.kind = "json" /\ content.items = <<>>
  \/ content.kind = "csv" /\ \A i \in 1..Len(content.items) : content.items[i] = ""

NoOutcome == [ok |-> FALSE, degraded |-> FALSE]

Event(type, job, waited) ==
  [type |-> type, jobTitle |-> job.jobTitle, res |-> job.res,
   retryCount |-> job.retryCount, waited |-> waited, outcome |-> NoOutcome]

\* a step of FetchReturns, with the kind of outcome the remote call settled with
FetchEvent(type, job, o) ==
  [Event(type, job, 0) EXCEPT
     !.outcome = [ok |-> o.ok, degraded |-> o.ok /\ Degraded(o.content)]]

(* ---- actions ---- *)
Init ==
  /\ now = StartTime
  /\ requestQueue = <<>>
  /\ isProcessing = FALSE
  /\ lastRequestTime = 0
  /\ drains = <<>>
  /\ nextRes = 0
  /\ invoked = [r \in ResIds |-> 0]
  /\ lastResp = [r \in ResIds |-> NoResponse]
  /\ attempts = [r \in ResIds |-> 0]
  /\ rlOnly = [r \in ResIds |-> TRUE]
  /\ limited = {}
  /\ sentOrder = <<>>
  /\ prevRequestTime = 0
  /\ shiftEmpty = FALSE
  /\ lastEvent = Event("init", NoJob, 0)

\* lines 132-154: POST /api/get-skills-suggestions
Post(jobTitle) ==
  /\ nextRes < MaxRequests
  /\ nextRes' = nextRes + 1
  /\ LET res == nextRes + 1 IN
     IF jobTitle = MissingTitle \/ Trim(jobTitle) = ""
     THEN /\ Install(Send(State, res, 400, "Job title is required",
                          JsArray(<<"Communication", "Problem Solving",
                                    "Teamwork", "Time Management">>)))
          /\ lastEvent' = Event("reject", [jobTitle |-> jobTitle, res |-> res, retryCount |-> 0], 0)
     ELSE /\ Install(processQueue(
                [State EXCEPT !.requestQueue =
                   Append(@, [jobTitle |-> jobTitle, res |-> res,
                              retryCount |-> Undefined])], now))
          /\ lastEvent' = Event("submit", [jobTitle |-> jobTitle, res |-> res, retryCount |-> 0], 0)
  /\ UNCHANGED <<now, rlOnly, limited>>

\* line 40: the spacing timer fires
WaitDone(i) ==
  /\ i \in 1..Len(drains)
  /\ drains[i].pc = "wait"
  /\ now >= drains[i].due
  /\ Install(StartAttempt([State EXCEPT !.drains = RemoveAt(@, i)], now))
  /\ lastEvent' = Event("attempt", NoJob, now - drains[i].since)
  /\ UNCHANGED <<now, nextRes, rlOnly, limited>>

\* lines 74-128 and 48-58: the remote call settles with outcome o
FetchReturns(i, o, throws) ==
  /\ i \in 1..Len(drains)
  /\ drains[i].pc = "fetch"
  /\ throws \in MayThrow(drains[i].res)
  /\ LET d == drains[i]
         rest == [State EXCEPT !.drains = RemoveAt(@, i)]
     IN /\ rlOnly' = [rlOnly EXCEPT ![d.res] = @ /\ ~o.ok /\ MentionsRateLimit(o.message)]
        /\ limited' = IF ~o.ok /\ MentionsRateLimit(o.message)
                      THEN limited \cup {d.res} ELSE limited
        /\ IF o.ok
           THEN /\ Install(Finish(rest, d, JsArray(ParseSkills(d.jobTitle, o.content)), now, throws))
                /\ lastEvent' = FetchEvent(IF throws THEN "threw" ELSE "success", d, o)
           ELSE IF shouldRetry(o.message, d.retryCount)
           THEN /\ ~throws
                /\ Install([State EXCEPT !.drains[i] =
                       [d EXCEPT !.pc = "backoff", !.since = now,
                                 !.due = now + retryDelay(d.retryCount)]])
                /\ lastEvent' = FetchEvent("backoff", d, o)
           ELSE /\ Install(Finish(rest, d, JsArray(getDefaultSkills(d.jobTitle)), now, throws))
                /\ lastEvent' = FetchEvent(IF throws THEN "threw"
                                           ELSE IF MentionsRateLimit(o.message) THEN "exhausted"
                                           ELSE "failure", d, o)
  /\ UNCHANGED <<now, nextRes>>

\* lines 118-123 and 48-58: the backoff timer fires
BackoffDone(i, throws) ==
  /\ i \in 1..Len(drains)
  /\ drains[i].pc = "backoff"
  /\ now >= drains[i].due
  /\ throws \in MayThrow(drains[i].res)
  /\ LET d == drains[i]
         pushed == [State EXCEPT !.requestQueue =
                      Append(@, [jobTitle |-> d.jobTitle, res |-> d.res,
                                 retryCount |-> d.retryCount + 1])]
         called == processQueue(pushed, now)
         rest == [called EXCEPT !.drains = RemoveAt(@, i)]
     IN /\ Install(Finish(rest, d, JsNull, now, throws))
        /\ lastEvent' = Event(IF throws THEN "requeue-threw" ELSE "requeue",
                              d, now - d.since)
  /\ UNCHANGED <<now, nextRes, rlOnly, limited>>

\* time passes.  The program reads the clock only as a difference to
\* lastRequestTime cut off at MIN_REQUEST_INTERVAL (line 36) and through its
\* timers, so idle time beyond that interval with nothing pending is skipped.
Tick ==
  /\ now + TimeStep <= MaxTime
  /\ drains # <<>> \/ now - lastRequestTime < MIN_REQUEST_INTERVAL
  /\ now' = now + TimeStep
  /\ lastEvent' = Event("tick", NoJob, 0)
  /\ UNCHANGED <<requestQueue, isProcessing, lastRequestTime, drains, nextRes,
                 invoked, lastResp, attempts, rlOnly, limited, sentOrder,
                 prevRequestTime, shiftEmpty>>

Next ==
  \/ \E jobTitle \in Bodies : Post(jobTitle)
  \/ \E i \in 1..Len(drains) : WaitDone(i)
  \/ \E i \in 1..Len(drains), o \in Outcomes, throws \in BOOLEAN : FetchReturns(i, o, throws)
  \/ \E i \in 1..Len(drains), throws \in BOOLEAN : BackoffDone(i, throws)
  \/ Tick

Spec == Init /\ [][Next]_vars

TypeOK ==
  /\ now \in StartTime..MaxTime
  /\ isProcessing \in BOOLEAN
  /\ nextRes \in 0..MaxRequests

(* ---- properties ---- *)
RECURSIVE SumOver(_, _)
SumOver(f, S) ==
  IF S = {} THEN 0
  ELSE LET x == CHOOSE y \in S : TRUE IN f[x] + SumOver(f, S \ {x})

TotalAttempts == SumOver(attempts, ResIds)
InFlight == {i \in 1..Len(drains) : drains[i].pc = "fetch"}
Queued(res) == \E k \in 1..Len(requestQueue) : requestQueue[k].res = res
Responded(res) == lastResp[res].status # 0
FailureDelivery(jobTitle) ==
  [status |-> 500, error |-> "Failed to get suggestions",
   skills |-> JsArray(getDefaultSkills(jobTitle))]

\* C1: the res of a job is invoked at most once, also when the job was rate
\* limited and re-queued.
C1_RespondedAtMostOnce == \A r \in ResIds : invoked[r] <= 1

\* C2: no job stays in the queue forever.  Safety form: there is never a job
\* in the queue while isProcessing is true and no activation of processQueue
\* is left to take it out (from there only Post and time can step, and
\* neither removes a queue entry).
C2_NoJobStuck == ~(requestQueue # <<>> /\ isProcessing /\ drains = <<>>)

\* C3: every response sent by the queue pipeline carries a non-empty skill
\* list, never null.
C3_SkillsNeverNull ==
  \A r \in ResIds :
    Responded(r) => /\ lastResp[r].skills.tag = "array"
                    /\ Len(lastResp[r].skills.items) > 0

\* C4: at most one Completion Client call is in flight in every reachable state.
C4_MutualExclusion == Cardinality(InFlight) <= 1

C4_Witness ==
  /\ lastEvent.type = "requeue"
  /\ Cardinality(InFlight) = 1
  /\ Len(requestQueue) >= 1

\* C5: two consecutive attempts start at least MIN_REQUEST_INTERVAL apart.
C5_Spacing ==
  TotalAttempts >= 2 => lastRequestTime - prevRequestTime >= MIN_REQUEST_INTERVAL

C5_Witness ==
  /\ TotalAttempts >= 2
  /\ lastEvent.type = "attempt"
  /\ lastEvent.waited > 0
  /\ lastRequestTime - prevRequestTime = MIN_REQUEST_INTERVAL

\* C6: a rate limit error at retryCount 3 is not re-queued and is delivered
\* as HTTP 500 'Failed to get suggestions' with the fallback skills.
C6_RetryCeiling ==
  lastEvent.type = "exhausted" =>
    /\ lastEvent.retryCount = RETRY_CEILING
    /\ ~Queued(lastEvent.res)
    /\ lastResp[lastEvent.res] = FailureDelivery(lastEvent.jobTitle)

\* C7: an error that is not a rate limit error is never re-queued and is
\* delivered as HTTP 500 with the fallback skills.
C7_OtherFailure ==
  lastEvent.type = "failure" =>
    /\ ~Queued(lastEvent.res)
    /\ lastResp[lastEvent.res] = FailureDelivery(lastEvent.jobTitle)

\* C8: the step that re-queues a rate limited job leaves the job in the
\* pipeline with retryCount + 1 and the same res, and does not invoke the res.
C8_RequeueDoesNotRespond ==
  [][lastEvent'.type \in {"requeue", "requeue-threw"} =>
       /\ invoked' = invoked
       /\ LET next == [jobTitle |-> lastEvent'.jobTitle, res |-> lastEvent'.res,
                       retryCount |-> lastEvent'.retryCount + 1]
          IN \/ \E k \in 1..Len(requestQueue') : requestQueue'[k] = next
             \/ \E i \in 1..Len(drains') :
                  /\ drains'[i].pc = "fetch"
                  /\ drains'[i].res = next.res
                  /\ drains'[i].retryCount = next.retryCount]_vars

\* C9: the delay awaited before the k-th re-queue of a job is
\* 2^(k-1) * 1000 ms: 1000, 2000, 4000 for retryCount 0, 1, 2.
ExpectedDelay(k) ==
  CASE k = 1 -> 1000
    [] k = 2 -> 2000
    [] k = 3 -> 4000
    [] OTHER -> -1

C9_BackoffGrowth ==
  /\ \A i \in 1..Len(drains) :
       drains[i].pc = "backoff" =>
         /\ drains[i].retryCount + 1 \in 1..3
         /\ drains[i].due - drains[i].since = ExpectedDelay(drains[i].retryCount + 1)
  /\ lastEvent.type \in {"requeue", "requeue-threw"} =>
       lastEvent.waited >= ExpectedDelay(lastEvent.retryCount + 1)

C9_Witness ==
  /\ lastEvent.type = "requeue"
  /\ lastEvent.retryCount = 2
  /\ lastEvent.waited = 4000

\* C10: a job whose every attempt was rate limited is delivered only after
\* exactly 4 attempts, and no job is attempted more than 4 times.
C10_FourAttempts ==
  \A r \in ResIds :
    /\ attempts[r] <= RETRY_CEILING + 1
    /\ (attempts[r] > 0 /\ rlOnly[r] /\ Responded(r)) => attempts[r] = RETRY_CEILING + 1

(* ---- properties of the second group ---- *)
InvalidBodies == BlankTitles \cup {MissingTitle}
PostStep == nextRes' = nextRes + 1
EffRetryCount(e) == IF e.retryCount = Undefined THEN 0 ELSE e.retryCount
Before(a, b, seq) ==
  \E i, j \in 1..Len(seq) : i < j /\ seq[i] = a /\ seq[j] = b
Sent(res) == \E i \in 1..Len(sentOrder) : sentOrder[i] = res
Backoffs == {i \in 1..Len(drains) : drains[i].pc = "backoff"}

\* C11: a request whose jobTitle is missing or blank after trimming is
\* answered at once with HTTP 400 and the fixed 4-item list, and leaves the
\* queue, isProcessing, lastRequestTime and the remote calls as they were.
C11_Validation ==
  [][(PostStep /\ lastEvent'.jobTitle \in InvalidBodies) =>
       /\ lastResp'[lastEvent'.res] =
            [status |-> 400, error |-> "Job title is required",
             skills |-> JsArray(<<"Communication", "Problem Solving",
                                  "Teamwork", "Time Management">>)]
       /\ invoked'[lastEvent'.res] = 1
       /\ attempts'[lastEvent'.res] = 0
       /\ requestQueue' = requestQueue
       /\ isProcessing' = isProcessing
       /\ lastRequestTime' = lastRequestTime
       /\ drains' = drains
       /\ attempts' = attempts]_vars

C11_Witness ==
  /\ lastEvent.type = "reject"
  /\ lastEvent.jobTitle = "  "
  /\ isProcessing
  /\ Cardinality(InFlight) = 1

\* Every job that was rate limited has its first response before any job
\* submitted after it: the execution that C12 describes is not reachable.
RetriedAlwaysAnsweredFirst ==
  \A a, b \in ResIds :
    (a < b /\ a \in limited /\ Sent(b) /\ lastResp[b].status # 400)
      => Before(a, b, sentOrder)

\* C12: when job A is re-queued while job B waits in the queue, A goes behind
\* every job queued at that time and has received no delivery yet, so that B
\* is delivered before A receives any delivery.
C12_ReorderingUnderRetry ==
  [][(lastEvent'.type \in {"requeue", "requeue-threw"} /\ requestQueue # <<>>) =>
       LET a == lastEvent'.res IN
       /\ \A i \in 1..Len(sentOrder') : sentOrder'[i] # a
       /\ \E k \in 1..Len(requestQueue') :
            /\ requestQueue'[k].res = a
            /\ \A j \in 1..Len(requestQueue) :
                 \/ \E m \in 1..(k - 1) : requestQueue'[m] = requestQueue[j]
                 \/ \E i \in 1..Len(drains') :
                      drains'[i].pc = "fetch" /\ drains'[i].res = requestQueue[j].res]_vars

DegradedDelivery(e) ==
  /\ lastResp[e.res] = [status |-> 200, error |-> "",
                        skills |-> JsArray(getDefaultSkills(e.jobTitle))]
  /\ ~Queued(e.res)
  /\ \A i \in 1..Len(drains) : drains[i].res # e.res

\* On a res that accepts the send, a parse-degraded success is delivered as
\* HTTP 200 with the fallback skills and the job leaves the pipeline.
DegradedDeliveredWhenAccepted ==
  (lastEvent.type = "success" /\ lastEvent.outcome.degraded)
    => DegradedDelivery(lastEvent)

\* C13: when the remote call succeeds but its text cannot be parsed, or the
\* parsed list is empty, the job is delivered with HTTP 200 carrying the
\* fallback skills and is neither retried nor re-queued.
C13_ParseDegraded ==
  (lastEvent.type \in {"success", "threw"} /\ lastEvent.outcome.ok
     /\ lastEvent.outcome.degraded)
    => DegradedDelivery(lastEvent)

\* the queue q with one job of the submitted title and res, retryCount 0, appended
AppendedTo(q, q2, ev) ==
  /\ Len(q2) = Len(q) + 1
  /\ SubSeq(q2, 1, Len(q)) = q
  /\ q2[Len(q2)].jobTitle = ev.jobTitle
  /\ q2[Len(q2)].res = ev.res
  /\ EffRetryCount(q2[Len(q2)]) = 0

\* C14 as stated: a valid submission arriving in any state appends exactly one
\* job with retryCount 0 to the tail and leaves the in-flight job, the other
\* queue entries and lastRequestTime unchanged.
C14_SubmitOnlyAppends ==
  [][lastEvent'.type = "submit" =>
       /\ AppendedTo(requestQueue, requestQueue', lastEvent')
       /\ drains' = drains
       /\ lastRequestTime' = lastRequestTime]_vars

\* C14 as amended: a valid submission arriving while isProcessing is true
\* only appends its job (retryCount 0) to the tail; arriving while idle it
\* also starts the drain in the same step: isProcessing becomes true and the
\* job is either popped at once with lastRequestTime set to now (at least
\* MIN_REQUEST_INTERVAL since lastRequestTime) or kept queued behind a
\* spacing wait with lastRequestTime unchanged.
C14_SubmitAppends ==
  [][lastEvent'.type = "submit" =>
       IF isProcessing
       THEN /\ AppendedTo(requestQueue, requestQueue', lastEvent')
            /\ drains' = drains
            /\ lastRequestTime' = lastRequestTime
            /\ isProcessing'
            /\ attempts' = attempts
       ELSE /\ requestQueue = <<>>
            /\ isProcessing'
            /\ Len(drains') = Len(drains) + 1
            /\ SubSeq(drains', 1, Len(drains)) = drains
            /\ LET d == drains'[Len(drains')] IN
               IF now - lastRequestTime >= MIN_REQUEST_INTERVAL
               THEN /\ requestQueue' = <<>>
                    /\ d.pc = "fetch" /\ d.res = lastEvent'.res
                    /\ d.jobTitle = lastEvent'.jobTitle /\ d.retryCount = 0
                    /\ lastRequestTime' = now
                    /\ attempts'[lastEvent'.res] = 1
               ELSE /\ AppendedTo(requestQueue, requestQueue', lastEvent')
                    /\ d.pc = "wait"
                    /\ d.due = lastRequestTime + MIN_REQUEST_INTERVAL
                    /\ lastRequestTime' = lastRequestTime
                    /\ attempts' = attempts]_vars

C14_Witness ==
  /\ lastEvent.type = "submit"
  /\ Backoffs # {}
  /\ Len(requestQueue) = 1
  /\ requestQueue[1].res = lastEvent.res

\* processQueue called in the current state changes nothing
DrainIsNoOp == processQueue(State, now) = State

\* the calls of processQueue that the program makes while it cannot start:
\* line 145 while isProcessing, line 122 (always while isProcessing; seen
\* alone when the send of line 48 throws), line 58 on an empty queue
NoOpCalls ==
  /\ (lastEvent'.type = "submit" /\ isProcessing) =>
       /\ drains' = drains /\ isProcessing'
       /\ lastRequestTime' = lastRequestTime /\ attempts' = attempts
  /\ lastEvent'.type = "requeue-threw" =>
       /\ requestQueue' = Append(requestQueue,
                                 [jobTitle |-> lastEvent'.jobTitle, res |-> lastEvent'.res,
                                  retryCount |-> lastEvent'.retryCount + 1])
       /\ \A i \in 1..Len(drains') : drains'[i] \in {drains[j] : j \in 1..Len(drains)}
       /\ isProcessing' = isProcessing
       /\ lastRequestTime' = lastRequestTime /\ attempts' = attempts
  /\ (lastEvent'.type \in {"success", "failure", "exhausted"} /\ requestQueue = <<>>) =>
       /\ requestQueue' = <<>> /\ ~isProcessing'
       /\ \A i \in 1..Len(drains') : drains'[i] \in {drains[j] : j \in 1..Len(drains)}
       /\ lastRequestTime' = lastRequestTime /\ attempts' = attempts

\* C15: a call of processQueue made while isProcessing is true or while the
\* queue is empty changes nothing: queue, isProcessing, lastRequestTime and
\* the in-flight job stay as they are and no remote call is started.
C15_DrainNoOp ==
  /\ []((isProcessing \/ requestQueue = <<>>) => DrainIsNoOp)
  /\ [][NoOpCalls]_vars

C15_Witness ==
  /\ lastEvent.type = "submit"
  /\ isProcessing
  /\ Cardinality(InFlight) = 1
  /\ Len(requestQueue) >= 1
  /\ requestQueue[Len(requestQueue)].res = lastEvent.res

\* res r belongs to a job that entered the queue
Job(r) == r \in 1..nextRes /\ lastResp[r].status # 400

\* a step that pops a job pops the head of the queue as it stands at the pop:
\* the old head, or on an empty queue the job the step itself has pushed
PopsHead ==
  \A r \in ResIds :
    attempts'[r] # attempts[r] =>
      /\ attempts'[r] = attempts[r] + 1
      /\ \A q \in ResIds \ {r} : attempts'[q] = attempts[q]
      /\ IF requestQueue # <<>>
         THEN /\ Head(requestQueue).res = r
              /\ SubSeq(requestQueue', 1, Len(requestQueue) - 1) = Tail(requestQueue)
         ELSE /\ lastEvent'.type \in {"submit", "requeue"}
              /\ lastEvent'.res = r
              /\ requestQueue' = <<>>

FirstComeFirstServed ==
  \A a, b \in ResIds :
    (a < b /\ Job(a) /\ Job(b) /\ a \notin limited /\ b \notin limited) =>
      /\ attempts[b] >= 1 => attempts[a] >= 1
      /\ Sent(b) => Before(a, b, sentOrder)

\* C16: each drain pops the current head of the queue, so of two jobs that
\* are never rate limited the one submitted first is attempted and delivered
\* first.
C16_Fifo ==
  /\ [][PopsHead]_vars
  /\ []FirstComeFirstServed

C16_Witness ==
  /\ limited = {}
  /\ sentOrder = <<1, 2>>
  /\ attempts[1] = 1 /\ attempts[2] = 1
  /\ lastResp[1].status = 200 /\ lastResp[2].status = 200

\* C17: isProcessing is never true without a spacing wait, remote call or
\* backoff wait outstanding, and a non-empty queue is never without an active
\* drain; after every completed attempt isProcessing is false unless the
\* re-triggered drain has started.
C17_ProcessingReset ==
  /\ isProcessing => drains # <<>>
  /\ requestQueue # <<>> => drains # <<>>
  /\ lastEvent.type \in {"success", "failure", "exhausted", "requeue", "threw", "requeue-threw"}
       => (isProcessing <=> drains # <<>>)

\* C18: the pop of line 43 never finds the queue empty: while a spacing wait
\* is outstanding the queue is non-empty and no step shortens it.
C18_PopNeverEmpty ==
  /\ [](~shiftEmpty)
  /\ []((\E i \in 1..Len(drains) : drains[i].pc = "wait") => requestQueue # <<>>)
  /\ [][isProcessing /\ isProcessing' /\ Len(requestQueue') < Len(requestQueue)
          => attempts' # attempts]_vars

C18_Witness ==
  /\ lastEvent.type = "attempt"
  /\ lastEvent.waited > 0
  /\ ~shiftEmpty
  /\ requestQueue = <<>>
  /\ Cardinality(InFlight) = 1

\* the retryCount of the job of res r, in the queue or in an activation
RcOf(r) ==
  {EffRetryCount(requestQueue[k]) : k \in {j \in 1..Len(requestQueue) : requestQueue[j].res = r}}
    \cup {drains[i].retryCount : i \in {j \in 1..Len(drains) : drains[j].res = r}}

RetryCountInRange ==
  /\ \A k \in 1..Len(requestQueue) : EffRetryCount(requestQueue[k]) \in 0..RETRY_CEILING
  /\ \A r \in ResIds : Cardinality(RcOf(r)) <= 1 /\ RcOf(r) \subseteq 0..RETRY_CEILING

RetryCountSteps ==
  \/ requestQueue' = requestQueue /\ drains' = drains
  \/ \A r \in ResIds :
       /\ (RcOf(r) = {} /\ RcOf(r)' # {}) =>
            /\ RcOf(r)' = {0}
            /\ lastEvent'.type = "submit" /\ lastEvent'.res = r
       /\ \A x \in RcOf(r), y \in RcOf(r)' :
            \/ y = x
            \/ /\ y = x + 1
               /\ lastEvent'.type \in {"requeue", "requeue-threw"}
               /\ lastEvent'.res = r

\* C19: every queued job has retryCount in 0..3; it is 0 at submission,
\* changes only by +1 at a rate-limit re-queue, never decreases and never
\* exceeds RETRY_CEILING.
C19_RetryCountBounded ==
  /\ []RetryCountInRange
  /\ [][RetryCountSteps]_vars

C19_Witness ==
  /\ lastEvent.type = "requeue"
  /\ \E k \in 1..Len(requestQueue) :
       requestQueue[k].retryCount = RETRY_CEILING /\ requestQueue[k].res = lastEvent.res

BlockedDuringBackoff ==
  Backoffs # {} => /\ isProcessing
                   /\ InFlight = {}
                   /\ Len(drains) = 1

\* a step taken while a job is in its backoff wait: nothing is popped unless
\* the step is the re-queue at the end of that wait, and an attempt started
\* by that step starts 2^retryCount * 1000 ms or more after the failed one
BackoffStep ==
  \A i \in Backoffs :
    /\ (\E j \in 1..Len(drains') : drains'[j] = drains[i]) =>
         /\ attempts' = attempts
         /\ lastRequestTime' = lastRequestTime
         /\ isProcessing'
         /\ SubSeq(requestQueue', 1, Len(requestQueue)) = requestQueue
    /\ attempts' # attempts =>
         /\ lastEvent'.type = "requeue"
         /\ lastEvent'.res = drains[i].res
         /\ lastRequestTime' >=
              lastRequestTime + Pow(2, drains[i].retryCount) * 1000

\* C20: while a rate-limited job is in its backoff wait isProcessing stays
\* true and no other job is popped or attempted; the next attempt of any job
\* starts no earlier than the failed attempt's start plus 2^retryCount * 1000 ms.
C20_HeadOfLineBlocking ==
  /\ []BlockedDuringBackoff
  /\ [][BackoffStep]_vars

C20_Witness ==
  /\ lastEvent.type = "requeue"
  /\ lastEvent.retryCount = 1
  /\ \E i \in InFlight : drains[i].res # lastEvent.res
  /\ lastRequestTime - prevRequestTime = 2000

====
